---- MODULE Spec2Model ----
(***************************************************************************)
(* A model of the fstab crate (src/lib.rs): the text codec                 *)
(* (parse_entries / save_fstab) over character sequences, the mutating     *)
(* operations add_entry / add_entries / remove_entry over one backing      *)
(* file, and two unsynchronised writers sharing that file.                 *)
(*                                                                         *)
(* A text is a sequence of one-character strings.  An FsEntry is a record  *)
(* with the six fields of the struct; the string fields are texts.         *)
(***************************************************************************)
EXTENDS Naturals, Integers, Sequences, FiniteSets, TLC

VARIABLES file, reads, writes, log, trail, wpc, wcall, wentries, wret, wout,
          woff, events

vars ==
  <<file, reads, writes, log, trail, wpc, wcall, wentries, wret, wout, woff, events>>

seqVars == <<file, reads, writes, log>>
codecVars == <<trail>>
concVars == <<wpc, wcall, wentries, wret, wout, woff, events>>

----------------------------------------------------------------------------
(* Characters *)

Digits == {"0", "1", "2", "3", "4", "5", "6", "7", "8", "9"}

DigitVal ==
  [c \in Digits |->
     CASE c = "0" -> 0 [] c = "1" -> 1 [] c = "2" -> 2 [] c = "3" -> 3
       [] c = "4" -> 4 [] c = "5" -> 5 [] c = "6" -> 6 [] c = "7" -> 7
       [] c = "8" -> 8 [] c = "9" -> 9]

DigitChar == <<"0", "1", "2", "3", "4", "5", "6", "7", "8", "9">>

(* char::is_whitespace, restricted to the characters the model uses *)
WhiteSpace == {" ", "\t", "\n", "\r"}

(* u16::MAX, the largest value of the type of FsEntry::fsck_order *)
U16Max == 65535

----------------------------------------------------------------------------
(* Results: Ok(v) / Err(kind) *)

NoEntries == <<>>

OkEntries(es) == [ok |-> TRUE, entries |-> es, err |-> "none"]
ErrResult(kind) == [ok |-> FALSE, entries |-> NoEntries, err |-> kind]

----------------------------------------------------------------------------
(* str::lines: split at "\n", drop the terminator and a "\r" before it;    *)
(* a final line without terminator is returned as it is, and an empty      *)
(* remainder yields no line.                                               *)

StripCR(line) ==
  IF Len(line) > 0 /\ line[Len(line)] = "\r"
    THEN SubSeq(line, 1, Len(line) - 1)
    ELSE line

RECURSIVE LinesFrom(_, _, _)
LinesFrom(rest, cur, acc) ==
  IF rest = <<>>
    THEN IF cur = <<>> THEN acc ELSE Append(acc, cur)
    ELSE IF Head(rest) = "\n"
      THEN LinesFrom(Tail(rest), <<>>, Append(acc, StripCR(cur)))
      ELSE LinesFrom(Tail(rest), Append(cur, Head(rest)), acc)

Lines(text) == LinesFrom(text, <<>>, <<>>)

(* str::starts_with("#") *)
StartsWithHash(line) == Len(line) > 0 /\ line[1] = "#"

(* str::split_whitespace: the maximal runs of non-whitespace characters *)
RECURSIVE SplitWsFrom(_, _, _)
SplitWsFrom(rest, cur, acc) ==
  IF rest = <<>>
    THEN IF cur = <<>> THEN acc ELSE Append(acc, cur)
    ELSE IF Head(rest) \in WhiteSpace
      THEN SplitWsFrom(Tail(rest), <<>>,
                       IF cur = <<>> THEN acc ELSE Append(acc, cur))
      ELSE SplitWsFrom(Tail(rest), Append(cur, Head(rest)), acc)

SplitWhitespace(line) == SplitWsFrom(line, <<>>, <<>>)

(* str::split(","): one piece more than there are commas, empty pieces kept *)
RECURSIVE SplitCommaFrom(_, _, _)
SplitCommaFrom(rest, cur, acc) ==
  IF rest = <<>>
    THEN Append(acc, cur)
    ELSE IF Head(rest) = ","
      THEN SplitCommaFrom(Tail(rest), <<>>, Append(acc, cur))
      ELSE SplitCommaFrom(Tail(rest), Append(cur, Head(rest)), acc)

SplitComma(tok) == SplitCommaFrom(tok, <<>>, <<>>)

(* [String]::join(",") *)
RECURSIVE JoinComma(_)
JoinComma(opts) ==
  IF opts = <<>> THEN <<>>
  ELSE IF Len(opts) = 1 THEN opts[1]
  ELSE opts[1] \o <<",">> \o JoinComma(Tail(opts))

(* u16::from_str: an optional "+", then at least one digit, accumulated    *)
(* with checked multiplication and addition; "-" is not accepted for an    *)
(* unsigned type.                                                          *)
RECURSIVE ParseDigits(_, _)
ParseDigits(rest, acc) ==
  IF rest = <<>>
    THEN [ok |-> TRUE, val |-> acc]
    ELSE IF Head(rest) \notin Digits
      THEN [ok |-> FALSE, val |-> 0]
      ELSE IF acc * 10 + DigitVal[Head(rest)] > U16Max
        THEN [ok |-> FALSE, val |-> 0]
        ELSE ParseDigits(Tail(rest), acc * 10 + DigitVal[Head(rest)])

ParseU16(tok) ==
  IF tok = <<>> THEN [ok |-> FALSE, val |-> 0]
  ELSE IF tok = <<"+">> \/ tok = <<"-">> THEN [ok |-> FALSE, val |-> 0]
  ELSE IF Head(tok) = "+" THEN ParseDigits(Tail(tok), 0)
  ELSE ParseDigits(tok, 0)

(* Display of a u16: decimal, no sign, no leading zero *)
RECURSIVE FormatU16(_)
FormatU16(n) ==
  IF n < 10 THEN <<DigitChar[n + 1]>>
  ELSE FormatU16(n \div 10) \o <<DigitChar[(n % 10) + 1]>>

----------------------------------------------------------------------------
(* PathBuf: built from a str and displayed as that same str; compared by   *)
(* components (repeated and trailing separators and inner "." dropped).    *)

RECURSIVE SplitSlashFrom(_, _, _)
SplitSlashFrom(rest, cur, acc) ==
  IF rest = <<>>
    THEN IF cur = <<>> THEN acc ELSE Append(acc, cur)
    ELSE IF Head(rest) = "/"
      THEN SplitSlashFrom(Tail(rest), <<>>,
                          IF cur = <<>> THEN acc ELSE Append(acc, cur))
      ELSE SplitSlashFrom(Tail(rest), Append(cur, Head(rest)), acc)

RECURSIVE DropDots(_, _)
DropDots(parts, keepFirst) ==
  IF parts = <<>> THEN <<>>
  ELSE IF Head(parts) = <<".">> /\ ~keepFirst THEN DropDots(Tail(parts), FALSE)
  ELSE <<Head(parts)>> \o DropDots(Tail(parts), FALSE)

PathComponents(p) ==
  LET rooted == Len(p) > 0 /\ p[1] = "/"
  IN  [root |-> rooted, parts |-> DropDots(SplitSlashFrom(p, <<>>, <<>>), ~rooted)]

PathFrom(tok) == tok
PathDisplay(p) == p
PathEq(p, q) == PathComponents(p) = PathComponents(q)

----------------------------------------------------------------------------
(* FsEntry and its derived PartialEq *)

FsEntry(spec, mnt, vfs, opts, dump, fsck) ==
  [fs_spec |-> spec, mountpoint |-> mnt, vfs_type |-> vfs,
   mount_options |-> opts, dump |-> dump, fsck_order |-> fsck]

EntryEq(a, b) ==
  /\ a.fs_spec = b.fs_spec
  /\ PathEq(a.mountpoint, b.mountpoint)
  /\ a.vfs_type = b.vfs_type
  /\ a.mount_options = b.mount_options
  /\ a.dump = b.dump
  /\ a.fsck_order = b.fsck_order

----------------------------------------------------------------------------
(* FsTab::parse_entries *)

DecodeLine(parts, fsck) ==
  FsEntry(parts[1], PathFrom(parts[2]), parts[3], SplitComma(parts[4]),
          IF parts[5] = <<"0">> THEN FALSE ELSE TRUE, fsck)

(* parse_entries with a bad check-order token skipped like a malformed line *)
RECURSIVE ParseLinesSkipBadNumber(_, _)
ParseLinesSkipBadNumber(lines, entries) ==
  IF lines = <<>>
    THEN OkEntries(entries)
    ELSE LET line == Head(lines)
             parts == SplitWhitespace(line)
         IN  IF StartsWithHash(line) \/ Len(parts) # 6 \/ ~ParseU16(parts[6]).ok
               THEN ParseLinesSkipBadNumber(Tail(lines), entries)
               ELSE ParseLinesSkipBadNumber(Tail(lines),
                      Append(entries, DecodeLine(parts, ParseU16(parts[6]).val)))

(* parse_entries leaving the loop at the first line without six tokens *)
RECURSIVE ParseLinesStopAtMalformed(_, _)
ParseLinesStopAtMalformed(lines, entries) ==
  IF lines = <<>>
    THEN OkEntries(entries)
    ELSE LET line == Head(lines)
             parts == SplitWhitespace(line)
         IN  IF StartsWithHash(line)
               THEN ParseLinesStopAtMalformed(Tail(lines), entries)
               ELSE IF Len(parts) # 6
                 THEN OkEntries(entries)
                 ELSE LET n == ParseU16(parts[6])
                      IN  IF ~n.ok
                            THEN ErrResult("InvalidInput")
                            ELSE ParseLinesStopAtMalformed(Tail(lines),
                                   Append(entries, DecodeLine(parts, n.val)))

RECURSIVE ParseLines(_, _)
ParseLines(lines, entries) ==
  IF lines = <<>>
    THEN OkEntries(entries)
    ELSE LET line == Head(lines)
             parts == SplitWhitespace(line)
         IN  IF StartsWithHash(line)
               THEN ParseLines(Tail(lines), entries)
               ELSE IF Len(parts) # 6
                 THEN ParseLines(Tail(lines), entries)
                 ELSE LET n == ParseU16(parts[6])
                      IN  IF ~n.ok
                            THEN ErrResult("InvalidInput")
                            ELSE ParseLines(Tail(lines),
                                   Append(entries, DecodeLine(parts, n.val)))

ParseEntries(text) == ParseLines(Lines(text), <<>>)

(* FsTab::save_fstab: the bytes written to the created (truncated) file *)
(* save_fstab printing the dump flag with the Display of bool *)
FormatEntryBoolDisplay(e) ==
  e.fs_spec \o <<" ">> \o PathDisplay(e.mountpoint) \o <<" ">> \o e.vfs_type
    \o <<" ">> \o JoinComma(e.mount_options) \o <<" ">>
    \o (IF e.dump THEN <<"t", "r", "u", "e">> ELSE <<"f", "a", "l", "s", "e">>)
    \o <<" ">> \o FormatU16(e.fsck_order) \o <<"\n">>

FormatEntry(e) ==
  e.fs_spec \o <<" ">> \o PathDisplay(e.mountpoint) \o <<" ">> \o e.vfs_type
    \o <<" ">> \o JoinComma(e.mount_options) \o <<" ">>
    \o (IF e.dump THEN <<"1">> ELSE <<"0">>) \o <<" ">>
    \o FormatU16(e.fsck_order) \o <<"\n">>

RECURSIVE SaveFstab(_)
SaveFstab(entries) ==
  IF entries = <<>> THEN <<>>
  ELSE FormatEntry(Head(entries)) \o SaveFstab(Tail(entries))

----------------------------------------------------------------------------
(* Input values: tokens, entries, entry lists and store texts *)

RECURSIVE Words(_)
Words(tokens) ==
  IF Len(tokens) = 1 THEN tokens[1]
  ELSE tokens[1] \o <<" ">> \o Words(Tail(tokens))

Row(tokens) == Words(tokens) \o <<"\n">>

tA == <<"a">>
tB == <<"b">>
tZ == <<"z">>
tHashA == <<"#", "a">>
tM == <<"/", "m">>
tMSlash == <<"/", "m", "/">>
tN == <<"n">>
tX == <<"x">>
tR == <<"r">>
tW == <<"w">>
tRW == <<"r", ",", "w">>
t0 == <<"0">>
t1 == <<"1">>
t2 == <<"2">>

eA == FsEntry(tA, tM, tX, <<tR>>, FALSE, 1)
eA2 == FsEntry(tA, tN, tX, <<tR>>, FALSE, 0)
eASlash == FsEntry(tA, tMSlash, tX, <<tR>>, FALSE, 1)
eB == FsEntry(tB, tM, tX, <<tR, tW>>, TRUE, 2)
eHash == FsEntry(tHashA, tM, tX, <<tR>>, FALSE, 1)
eMax == FsEntry(tB, tN, tX, <<<<>>, tR>>, TRUE, U16Max)
eNoOpts == FsEntry(tA, tM, tX, <<>>, FALSE, 1)
eCommaOpt == FsEntry(tB, tM, tX, <<tRW>>, TRUE, 2)

rowA == Row(<<tA, tM, tX, tR, t0, t1>>)
rowA2 == Row(<<tA, tN, tX, tR, t0, t0>>)
rowB == Row(<<tB, tM, tX, tRW, t1, t2>>)
rowComment == Row(<<<<"#">>, <<"c">>>>)

(* a data line whose first token begins with "#" after a leading blank *)
rowBlankHash == <<" ">> \o Row(<<tHashA, tM, tX, tR, t0, t1>>)
(* a comment line that happens to have six tokens and a bad number *)
rowHashSix == Row(<<tHashA, tM, tX, tR, t0, <<"q">>>>)
rowFive == Row(<<tA, tM, tX, tR, t0>>)
rowSeven == Row(<<tA, tM, tX, tR, t0, t1, tZ>>)
(* tabs, runs of blanks, CR LF, a dump token other than 0/1, leading zeros *)
rowLoose ==
  tB \o <<"\t">> \o tMSlash \o <<" ", " ">> \o tX \o <<" ">> \o tR \o <<" ">>
     \o t2 \o <<"\t", " ">> \o <<"0", "0", "7">> \o <<"\r", "\n">>
rowNotNumber == Row(<<tA, tM, tX, tR, t0, tX>>)
rowTooBig == Row(<<tA, tM, tX, tR, t0, <<"6", "5", "5", "3", "6">>>>)
rowMinus == Row(<<tA, tM, tX, tR, t0, <<"-", "1">>>>)
rowPlus == Row(<<tA, tM, tX, tR, t0, <<"+", "2">>>>)
rowMax == Row(<<tB, tN, tX, <<",", "r">>, t1, <<"6", "5", "5", "3", "5">>>>)

(* sixth tokens of the inputs that do not denote an integer in 0..65535 *)
BadNumberTokens == {tX, <<"6", "5", "5", "3", "6">>, <<"-", "1">>}

InputTexts ==
  { <<>>,
    rowComment \o rowA,
    rowA \o rowB \o rowA2,
    rowBlankHash \o rowB,
    rowA \o rowBlankHash \o rowA2,
    rowB \o rowNotNumber \o rowA2,
    rowTooBig \o rowB,
    rowB \o rowA \o rowMinus,
    rowFive \o <<"\n">> \o rowSeven \o rowLoose,
    rowHashSix \o Words(<<tB, tM, tX, tRW, t1, t2>>),
    rowMax \o rowPlus,
    rowComment \o <<"\n">> \o rowLoose \o rowFive \o rowA,
    rowComment \o rowFive \o <<"\n">> \o rowSeven \o rowLoose \o rowHashSix \o rowA,
    rowA2 \o rowTooBig }

InputLists ==
  { <<>>, <<eA>>, <<eA, eB>>, <<eB, eA>>, <<eA, eA>>, <<eA, eA2, eB>>,
    <<eMax, eASlash>>, <<eHash>>, <<eA, eHash, eB>>, <<eNoOpts, eB>>,
    <<eB, eCommaOpt>>, <<eA2, eB, eA, eMax>> }

----------------------------------------------------------------------------
(* The codec as a pipeline: trail holds the input and every value derived  *)
(* from it by parse_entries (a text to a result) and save_fstab (an entry  *)
(* list to a text), in order.                                              *)

MaxTrail == 5

TextItem(t) == [kind |-> "text", text |-> t, entries |-> NoEntries]
ListItem(es) == [kind |-> "list", text |-> <<>>, entries |-> es]
ErrItem(k) == [kind |-> k, text |-> <<>>, entries |-> NoEntries]

ResultItem(r) == IF r.ok THEN ListItem(r.entries) ELSE ErrItem(r.err)

LastItem == trail[Len(trail)]

Decode ==
  /\ trail # <<>>
  /\ Len(trail) < MaxTrail
  /\ LastItem.kind = "text"
  /\ trail' = Append(trail, ResultItem(ParseEntries(LastItem.text)))
  /\ UNCHANGED <<seqVars, concVars>>

Encode ==
  /\ trail # <<>>
  /\ Len(trail) < MaxTrail
  /\ LastItem.kind = "list"
  /\ trail' = Append(trail, TextItem(SaveFstab(LastItem.entries)))
  /\ UNCHANGED <<seqVars, concVars>>

----------------------------------------------------------------------------
(* The backing file at FsTab::location, and the calls made on it *)

NoFile == [exists |-> FALSE, text |-> <<>>]
FileOf(t) == [exists |-> TRUE, text |-> t]

(* FsTab::get_entries: File::open fails when the file is missing *)
GetEntries(f) ==
  IF ~f.exists THEN ErrResult("NotFound") ELSE ParseEntries(f.text)

(* Iterator::position with the derived equality; 0 stands for None *)
RECURSIVE PositionFrom(_, _, _)
PositionFrom(entries, e, i) ==
  IF i > Len(entries) THEN 0
  ELSE IF EntryEq(entries[i], e) THEN i
  ELSE PositionFrom(entries, e, i + 1)

Position(entries, e) == PositionFrom(entries, e, 1)

RECURSIVE SpecPositionFrom(_, _, _)
SpecPositionFrom(entries, spec, i) ==
  IF i > Len(entries) THEN 0
  ELSE IF entries[i].fs_spec = spec THEN i
  ELSE SpecPositionFrom(entries, spec, i + 1)

SpecPosition(entries, spec) == SpecPositionFrom(entries, spec, 1)

(* Vec::remove *)
RemoveAt(entries, pos) ==
  SubSeq(entries, 1, pos - 1) \o SubSeq(entries, pos + 1, Len(entries))

(* What a call does with the entries it has read: whether it writes, the   *)
(* list it writes, and the boolean it returns.                             *)
AddEntryPlan(entries, entry) ==
  LET position == Position(entries, entry)
      kept == IF position # 0 THEN RemoveAt(entries, position) ELSE entries
  IN  [write |-> TRUE, entries |-> Append(kept, entry), flag |-> position = 0]

(* add_entries pushing every new entry without looking for an equal one *)
RECURSIVE AddEntriesFoldNoDedup(_, _)
AddEntriesFoldNoDedup(existing, news) ==
  IF news = <<>> THEN existing
  ELSE AddEntriesFoldNoDedup(Append(existing, Head(news)), Tail(news))

RECURSIVE AddEntriesFold(_, _)
AddEntriesFold(existing, news) ==
  IF news = <<>> THEN existing
  ELSE LET new_entry == Head(news)
           position == Position(existing, new_entry)
       IN  IF position = 0
             THEN AddEntriesFold(Append(existing, new_entry), Tail(news))
             ELSE AddEntriesFold(Append(RemoveAt(existing, position), new_entry),
                                 Tail(news))

AddEntriesPlan(existing, news) ==
  [write |-> TRUE, entries |-> AddEntriesFold(existing, news), flag |-> TRUE]

(* remove_entry saving the table whether or not it removed an entry *)
RemoveEntryPlanAlwaysSave(entries, spec) ==
  LET position == SpecPosition(entries, spec)
  IN  IF position # 0
        THEN [write |-> TRUE, entries |-> RemoveAt(entries, position), flag |-> TRUE]
        ELSE [write |-> TRUE, entries |-> entries, flag |-> FALSE]

RemoveEntryPlan(entries, spec) ==
  LET position == SpecPosition(entries, spec)
  IN  IF position # 0
        THEN [write |-> TRUE, entries |-> RemoveAt(entries, position), flag |-> TRUE]
        ELSE [write |-> FALSE, entries |-> entries, flag |-> FALSE]

GetEntriesPlan(entries) == [write |-> FALSE, entries |-> entries, flag |-> TRUE]

Call(op, es, spec) == [op |-> op, entries |-> es, spec |-> spec]

Plan(call, entries) ==
  CASE call.op = "add_entry" -> AddEntryPlan(entries, call.entries[1])
    [] call.op = "add_entries" -> AddEntriesPlan(entries, call.entries)
    [] call.op = "remove_entry" -> RemoveEntryPlan(entries, call.spec)
    [] call.op = "get_entries" -> GetEntriesPlan(entries)

(* One whole call, run alone: the file it leaves, what it returns and the  *)
(* number of File::open and File::create it performs.                      *)
Run(f, call) ==
  LET r == GetEntries(f)
      plan == Plan(call, r.entries)
  IN  IF ~r.ok
        THEN [file |-> f, ok |-> FALSE, err |-> r.err, flag |-> FALSE,
              entries |-> NoEntries, opens |-> 1, creates |-> 0]
        ELSE [file |-> IF plan.write THEN FileOf(SaveFstab(plan.entries)) ELSE f,
              ok |-> TRUE, err |-> "none", flag |-> plan.flag,
              entries |-> IF call.op = "get_entries" THEN r.entries ELSE NoEntries,
              opens |-> 1, creates |-> IF plan.write THEN 1 ELSE 0]

MaxOps == 2

ApiEntries == {eA, eA2, eB, eHash, eASlash, eCommaOpt}

Batches ==
  { <<>>, <<eA, eB>>, <<eB, eA>>, <<eA, eA>>, <<eA, eA2>>, <<eHash, eA>>,
    <<eASlash, eA>>, <<eA, eASlash>>, <<eB, eHash>>, <<eCommaOpt, eB>> }

Specs == {tA, tB, tZ}

InitFiles ==
  { NoFile,
    FileOf(<<>>),
    FileOf(rowComment \o rowA),
    FileOf(rowA \o rowB \o rowA2),
    FileOf(rowBlankHash \o rowB),
    FileOf(rowB \o rowNotNumber \o rowA2),
    FileOf(rowComment \o <<"\n">> \o rowLoose \o rowFive \o rowA) }

(* what the log keeps of a finished call *)
Logged(call, out) ==
  [call |-> call, pre |-> file, ok |-> out.ok, err |-> out.err,
   flag |-> out.flag, entries |-> out.entries, opens |-> out.opens,
   creates |-> out.creates]

GetEntriesCall ==
  LET call == Call("get_entries", <<>>, <<>>)
      out == Run(file, call)
  IN  /\ Len(log) < MaxOps
      /\ file' = out.file
      /\ reads' = reads + out.opens
      /\ writes' = writes + out.creates
      /\ log' = Append(log, Logged(call, out))
      /\ UNCHANGED <<codecVars, concVars>>

AddEntry(entry) ==
  LET call == Call("add_entry", <<entry>>, <<>>)
      out == Run(file, call)
  IN  /\ Len(log) < MaxOps
      /\ file' = out.file
      /\ reads' = reads + out.opens
      /\ writes' = writes + out.creates
      /\ log' = Append(log, Logged(call, out))
      /\ UNCHANGED <<codecVars, concVars>>

AddEntries(entries) ==
  LET call == Call("add_entries", entries, <<>>)
      out == Run(file, call)
  IN  /\ Len(log) < MaxOps
      /\ file' = out.file
      /\ reads' = reads + out.opens
      /\ writes' = writes + out.creates
      /\ log' = Append(log, Logged(call, out))
      /\ UNCHANGED <<codecVars, concVars>>

RemoveEntry(spec) ==
  LET call == Call("remove_entry", <<>>, spec)
      out == Run(file, call)
  IN  /\ Len(log) < MaxOps
      /\ file' = out.file
      /\ reads' = reads + out.opens
      /\ writes' = writes + out.creates
      /\ log' = Append(log, Logged(call, out))
      /\ UNCHANGED <<codecVars, concVars>>

----------------------------------------------------------------------------
(* Two callers on the same file, with no lock.  A call is a read step      *)
(* (get_entries), then save_fstab on the entries it read: File::create     *)
(* truncates the file, each entry is one write at the caller's own file    *)
(* offset, and the call returns after the flush.                           *)

Writers == {1, 2}

ConcCalls ==
  {Call("add_entry", <<e>>, <<>>) : e \in {eA, eA2, eB}}
    \cup {Call("add_entries", <<eA, eB>>, <<>>)}
    \cup {Call("remove_entry", <<>>, s) : s \in {tA, tZ}}

ConcFiles ==
  { FileOf(<<>>), FileOf(rowComment \o rowA), FileOf(rowA \o rowB \o rowA2),
    FileOf(rowB \o rowNotNumber \o rowA2) }

IdleCall == Call("none", <<>>, <<>>)
NoRet == [ok |-> FALSE, err |-> "pending", flag |-> FALSE]

(* the byte a hole left by a write beyond the end of the file reads as *)
Nul == "NUL"

(* write(2) of data at offset off *)
WriteAt(text, off, data) ==
  LET n == IF Len(text) > off + Len(data) THEN Len(text) ELSE off + Len(data)
  IN  [i \in 1..n |->
         IF i > off /\ i <= off + Len(data) THEN data[i - off]
         ELSE IF i <= Len(text) THEN text[i]
         ELSE Nul]

RECURSIVE FormatAll(_)
FormatAll(entries) ==
  IF entries = <<>> THEN <<>>
  ELSE <<FormatEntry(Head(entries))>> \o FormatAll(Tail(entries))

Begin(w, call) ==
  LET r == GetEntries(file)
  IN  /\ wpc[w] = "idle"
      /\ wcall' = [wcall EXCEPT ![w] = call]
      /\ events' = Append(events, [w |-> w, step |-> "read", file |-> file])
      /\ IF r.ok
           THEN /\ wentries' = [wentries EXCEPT ![w] = r.entries]
                /\ wpc' = [wpc EXCEPT ![w] = "loaded"]
                /\ wret' = wret
           ELSE /\ wentries' = wentries
                /\ wpc' = [wpc EXCEPT ![w] = "done"]
                /\ wret' = [wret EXCEPT ![w] =
                              [ok |-> FALSE, err |-> r.err, flag |-> FALSE]]
      /\ UNCHANGED <<seqVars, codecVars, wout, woff>>

(* the second step reading the file again, as it would under a lock held   *)
(* from read to write                                                      *)
CreateFresh(w) ==
  LET plan == Plan(wcall[w], GetEntries(file).entries)
  IN  /\ wpc[w] = "loaded"
      /\ IF plan.write
           THEN /\ file' = FileOf(<<>>)
                /\ wout' = [wout EXCEPT ![w] = FormatAll(plan.entries)]
                /\ woff' = [woff EXCEPT ![w] = 0]
                /\ wpc' = [wpc EXCEPT ![w] = "writing"]
                /\ wret' = [wret EXCEPT ![w] =
                              [ok |-> FALSE, err |-> "pending", flag |-> plan.flag]]
                /\ events' = Append(events, [w |-> w, step |-> "create", file |-> file])
           ELSE /\ file' = file
                /\ wout' = wout
                /\ woff' = woff
                /\ wpc' = [wpc EXCEPT ![w] = "done"]
                /\ wret' = [wret EXCEPT ![w] =
                              [ok |-> TRUE, err |-> "none", flag |-> plan.flag]]
                /\ events' = events
      /\ UNCHANGED <<reads, writes, log, wcall, wentries, codecVars>>

(* what the call does with the entries it read; File::create if it saves *)
Create(w) ==
  LET plan == Plan(wcall[w], wentries[w])
  IN  /\ wpc[w] = "loaded"
      /\ IF plan.write
           THEN /\ file' = FileOf(<<>>)
                /\ wout' = [wout EXCEPT ![w] = FormatAll(plan.entries)]
                /\ woff' = [woff EXCEPT ![w] = 0]
                /\ wpc' = [wpc EXCEPT ![w] = "writing"]
                /\ wret' = [wret EXCEPT ![w] =
                              [ok |-> FALSE, err |-> "pending", flag |-> plan.flag]]
                /\ events' = Append(events, [w |-> w, step |-> "create", file |-> file])
           ELSE /\ file' = file
                /\ wout' = wout
                /\ woff' = woff
                /\ wpc' = [wpc EXCEPT ![w] = "done"]
                /\ wret' = [wret EXCEPT ![w] =
                              [ok |-> TRUE, err |-> "none", flag |-> plan.flag]]
                /\ events' = events
      /\ UNCHANGED <<reads, writes, log, wcall, wentries, codecVars>>

(* one file.write of the loop of save_fstab *)
WriteLine(w) ==
  /\ wpc[w] = "writing"
  /\ wout[w] # <<>>
  /\ file' = FileOf(WriteAt(file.text, woff[w], Head(wout[w])))
  /\ woff' = [woff EXCEPT ![w] = woff[w] + Len(Head(wout[w]))]
  /\ wout' = [wout EXCEPT ![w] = Tail(wout[w])]
  /\ UNCHANGED <<reads, writes, log, wpc, wcall, wentries, wret, events, codecVars>>

(* file.flush and the return of the call *)
Return(w) ==
  /\ wpc[w] = "writing"
  /\ wout[w] = <<>>
  /\ wpc' = [wpc EXCEPT ![w] = "done"]
  /\ wret' = [wret EXCEPT ![w] = [ok |-> TRUE, err |-> "none", flag |-> wret[w].flag]]
  /\ events' = Append(events, [w |-> w, step |-> "write", file |-> file])
  /\ UNCHANGED <<seqVars, wcall, wentries, wout, woff, codecVars>>

----------------------------------------------------------------------------
(* Specifications *)

IdleSeq == file = FileOf(<<>>) /\ reads = 0 /\ writes = 0 /\ log = <<>>

IdleConc ==
  /\ wpc = [w \in Writers |-> "idle"]
  /\ wcall = [w \in Writers |-> IdleCall]
  /\ wentries = [w \in Writers |-> NoEntries]
  /\ wret = [w \in Writers |-> NoRet]
  /\ wout = [w \in Writers |-> <<>>]
  /\ woff = [w \in Writers |-> 0]
  /\ events = <<>>

(* the mutating operations, one caller *)
Init ==
  /\ file \in InitFiles
  /\ reads = 0 /\ writes = 0 /\ log = <<>>
  /\ trail = <<>>
  /\ IdleConc

Next ==
  \/ GetEntriesCall
  \/ \E e \in ApiEntries : AddEntry(e)
  \/ \E es \in Batches : AddEntries(es)
  \/ \E s \in Specs : RemoveEntry(s)

Spec == Init /\ [][Next]_vars

(* the codec alone *)
InitCodec ==
  /\ trail \in {<<TextItem(t)>> : t \in InputTexts}
                 \cup {<<ListItem(es)>> : es \in InputLists}
  /\ IdleSeq
  /\ IdleConc

NextCodec == Decode \/ Encode

SpecCodec == InitCodec /\ [][NextCodec]_vars

(* two callers without a lock *)
InitConc ==
  /\ file \in ConcFiles
  /\ reads = 0 /\ writes = 0 /\ log = <<>>
  /\ trail = <<>>
  /\ IdleConc

NextConc ==
  \/ \E w \in Writers : \E c \in ConcCalls : Begin(w, c)
  \/ \E w \in Writers : Create(w)
  \/ \E w \in Writers : WriteLine(w)
  \/ \E w \in Writers : Return(w)

SpecConc == InitConc /\ [][NextConc]_vars

----------------------------------------------------------------------------
(* Properties of the codec (SpecCodec) *)

HasWhiteSpace(tok) == \E i \in 1..Len(tok) : tok[i] \in WhiteSpace
HasComma(tok) == \E i \in 1..Len(tok) : tok[i] = ","
IsToken(tok) == tok # <<>> /\ ~HasWhiteSpace(tok)

(* An entry each of whose fields is written as one column of a line: every *)
(* string field is one token, there is at least one option, no option      *)
(* holds a blank or a comma, the options column is not empty, and the      *)
(* check order is a u16.                                                   *)
WireEntry(e) ==
  /\ IsToken(e.fs_spec)
  /\ IsToken(e.mountpoint)
  /\ IsToken(e.vfs_type)
  /\ e.mount_options # <<>>
  /\ \A i \in 1..Len(e.mount_options) :
        ~HasWhiteSpace(e.mount_options[i]) /\ ~HasComma(e.mount_options[i])
  /\ JoinComma(e.mount_options) # <<>>
  /\ e.fsck_order \in 0..U16Max

(* An entry with valid field values: one whose fields are columns and      *)
(* whose device spec does not look like a comment.                         *)
ValidEntry(e) == WireEntry(e) /\ e.fs_spec[1] # "#"

ValidList(es) == \A i \in 1..Len(es) : ValidEntry(es[i])

(* C1: writing a list of entries with valid field values with save_fstab   *)
(* and parsing what was written with parse_entries gives back the same     *)
(* list: same length, same order, all six fields equal.                    *)
C1_SaveThenParse ==
  \A i \in 1..Len(trail) :
    (/\ i + 2 <= Len(trail)
     /\ trail[i].kind = "list"
     /\ ValidList(trail[i].entries))
      => /\ trail[i + 1].kind = "text"
         /\ trail[i + 2] = ListItem(trail[i].entries)

C1_Witness ==
  /\ Len(trail) >= 3
  /\ trail[1].kind = "list"
  /\ Len(trail[1].entries) >= 3
  /\ ValidList(trail[1].entries)
  /\ trail[3].kind = "list"

(* C2: for every text that parse_entries accepts, parse, write, parse      *)
(* gives the entries of the first parse: no entry lost, no field value or  *)
(* order changed, also for a data line whose first token begins with "#"   *)
(* after leading white space.                                              *)
C2_ParseWriteParse ==
  \A i \in 1..Len(trail) :
    (/\ i + 3 <= Len(trail)
     /\ trail[i].kind = "text"
     /\ trail[i + 1].kind = "list")
      => trail[i + 3] = trail[i + 1]

(* the lines parse_entries decodes: not starting with "#", six tokens *)
RECURSIVE DataLines(_)
DataLines(lines) ==
  IF lines = <<>> THEN <<>>
  ELSE IF StartsWithHash(Head(lines))
    THEN DataLines(Tail(lines))
  ELSE IF Len(SplitWhitespace(Head(lines))) = 6
    THEN <<SplitWhitespace(Head(lines))>> \o DataLines(Tail(lines))
  ELSE DataLines(Tail(lines))

HasBadNumberLine(text) ==
  \E i \in 1..Len(DataLines(Lines(text))) :
     DataLines(Lines(text))[i][6] \in BadNumberTokens

(* C8: if a non-comment line with exactly six tokens has a sixth token     *)
(* that is not a decimal integer in 0..65535, parse_entries fails with an  *)
(* input-format error and returns no entry, whatever the other lines are.  *)
C8_BadNumberIsFatal ==
  (/\ Len(trail) >= 2
   /\ trail[1].kind = "text"
   /\ HasBadNumberLine(trail[1].text))
    => trail[2] = ErrItem("InvalidInput")

C8_Witness ==
  /\ Len(trail) >= 2
  /\ trail[1].kind = "text"
  /\ HasBadNumberLine(trail[1].text)
  /\ Len(DataLines(Lines(trail[1].text))) = 3
  /\ DataLines(Lines(trail[1].text))[1][6] \notin BadNumberTokens
  /\ DataLines(Lines(trail[1].text))[3][6] \notin BadNumberTokens
  /\ trail[2].kind = "InvalidInput"

(* the entry a data line stands for *)
Matches(e, parts) ==
  /\ e.fs_spec = parts[1]
  /\ e.mountpoint = parts[2]
  /\ e.vfs_type = parts[3]
  /\ JoinComma(e.mount_options) = parts[4]
  /\ \A i \in 1..Len(e.mount_options) : ~HasComma(e.mount_options[i])
  /\ e.dump = (parts[5] # <<"0">>)
  /\ ParseU16(parts[6]).ok /\ e.fsck_order = ParseU16(parts[6]).val

OneEntryPerDataLine(text, item) ==
  /\ item.kind = "list"
  /\ Len(item.entries) = Len(DataLines(Lines(text)))
  /\ \A k \in 1..Len(item.entries) :
        Matches(item.entries[k], DataLines(Lines(text))[k])

(* C9 as stated: parse_entries returns, in line order, exactly one entry   *)
(* for each line that does not begin with "#" and has exactly six tokens;  *)
(* every other line is left out without an error and without stopping the  *)
(* parse.                                                                  *)
C9_Original ==
  (Len(trail) >= 2 /\ trail[1].kind = "text")
    => OneEntryPerDataLine(trail[1].text, trail[2])

(* C9 amended: the same, for a text in which no data line has a sixth      *)
(* token that fails to parse as a u16 (such a line fails the call, C8).    *)
C9_Amended ==
  (/\ Len(trail) >= 2
   /\ trail[1].kind = "text"
   /\ ~HasBadNumberLine(trail[1].text))
    => OneEntryPerDataLine(trail[1].text, trail[2])

C9_Witness ==
  /\ Len(trail) >= 2
  /\ trail[1].kind = "text"
  /\ \E i \in 1..Len(Lines(trail[1].text)) :
        Len(SplitWhitespace(Lines(trail[1].text)[i])) = 5
  /\ \E i \in 1..Len(Lines(trail[1].text)) :
        Len(SplitWhitespace(Lines(trail[1].text)[i])) = 7
  /\ \E i \in 1..Len(Lines(trail[1].text)) : Lines(trail[1].text)[i] = <<>>
  /\ \E i \in 1..Len(Lines(trail[1].text)) :
        /\ StartsWithHash(Lines(trail[1].text)[i])
        /\ Len(SplitWhitespace(Lines(trail[1].text)[i])) = 6
  /\ trail[2].kind = "list"
  /\ Len(trail[2].entries) = 2

----------------------------------------------------------------------------
(* Properties of the mutating operations run one at a time (Spec) *)

(* the file as the k-th call of the log left it *)
After(k) == IF k < Len(log) THEN log[k + 1].pre ELSE file

IsAddEntry(k) == log[k].call.op = "add_entry"
IsRemoveEntry(k) == log[k].call.op = "remove_entry"

TableBefore(k) == GetEntries(log[k].pre)
TableAfter(k) == GetEntries(After(k))

Holds(es, e) == \E i \in 1..Len(es) : EntryEq(es[i], e)
FirstEqual(es, e) ==
  CHOOSE i \in 1..Len(es) :
    EntryEq(es[i], e) /\ \A j \in 1..(i - 1) : ~EntryEq(es[j], e)

HoldsSpec(es, spec) == \E i \in 1..Len(es) : es[i].fs_spec = spec
FirstWithSpec(es, spec) ==
  CHOOSE i \in 1..Len(es) :
    es[i].fs_spec = spec /\ \A j \in 1..(i - 1) : es[j].fs_spec # spec

Without(es, i) == [j \in 1..(Len(es) - 1) |-> IF j < i THEN es[j] ELSE es[j + 1]]

(* C4: when the table add_entry(e) reads holds an entry equal to e, the    *)
(* call returns false, removes the first such entry, appends e and         *)
(* rewrites the file: the table read back has the same length, e is last,  *)
(* the other entries keep their order.                                     *)
C4_ExactReplace ==
  \A k \in 1..Len(log) :
    (/\ IsAddEntry(k)
     /\ TableBefore(k).ok
     /\ Holds(TableBefore(k).entries, log[k].call.entries[1]))
      => LET e == log[k].call.entries[1]
             old == TableBefore(k).entries
         IN  /\ log[k].ok /\ log[k].flag = FALSE
             /\ log[k].creates = 1
             /\ TableAfter(k).ok
             /\ Len(TableAfter(k).entries) = Len(old)
             /\ TableAfter(k).entries = Without(old, FirstEqual(old, e)) \o <<e>>

(* C5: when the table add_entry(e) reads holds no entry equal to e, the    *)
(* call returns true and the table read back is the old table with e       *)
(* appended; an old entry with the same fs_spec and another field          *)
(* different stays where it was.                                           *)
C5_FreshInsert ==
  \A k \in 1..Len(log) :
    (/\ IsAddEntry(k)
     /\ TableBefore(k).ok
     /\ ~Holds(TableBefore(k).entries, log[k].call.entries[1]))
      => LET e == log[k].call.entries[1]
             old == TableBefore(k).entries
         IN  /\ log[k].ok /\ log[k].flag = TRUE
             /\ TableAfter(k).ok
             /\ Len(TableAfter(k).entries) = Len(old) + 1
             /\ TableAfter(k).entries = old \o <<e>>

(* C6: when some entry has the given fs_spec, remove_entry returns true    *)
(* and removes exactly the first such entry: the table read back is one    *)
(* shorter, later entries with that fs_spec stay, order is kept.           *)
C6_RemoveFirstMatch ==
  \A k \in 1..Len(log) :
    (/\ IsRemoveEntry(k)
     /\ TableBefore(k).ok
     /\ HoldsSpec(TableBefore(k).entries, log[k].call.spec))
      => LET old == TableBefore(k).entries
         IN  /\ log[k].ok /\ log[k].flag = TRUE
             /\ TableAfter(k).ok
             /\ Len(TableAfter(k).entries) = Len(old) - 1
             /\ TableAfter(k).entries = Without(old, FirstWithSpec(old, log[k].call.spec))

(* C7: when no entry of the table has the given fs_spec, remove_entry      *)
(* returns false and does not write: the file keeps its content byte for   *)
(* byte, comments and blank lines included.                                *)
C7_RemoveNoMatch ==
  \A k \in 1..Len(log) :
    (/\ IsRemoveEntry(k)
     /\ TableBefore(k).ok
     /\ ~HoldsSpec(TableBefore(k).entries, log[k].call.spec))
      => /\ log[k].ok /\ log[k].flag = FALSE
         /\ log[k].creates = 0
         /\ After(k) = log[k].pre

C7_Witness ==
  /\ Len(log) = 1
  /\ IsRemoveEntry(1)
  /\ log[1].pre.exists
  /\ \E i \in 1..Len(Lines(log[1].pre.text)) : StartsWithHash(Lines(log[1].pre.text)[i])
  /\ \E i \in 1..Len(Lines(log[1].pre.text)) : Lines(log[1].pre.text)[i] = <<>>
  /\ TableBefore(1).ok
  /\ Len(TableBefore(1).entries) >= 2
  /\ ~HoldsSpec(TableBefore(1).entries, log[1].call.spec)
  /\ log[1].flag = FALSE
  /\ writes = 0 /\ reads = 1
  /\ file = log[1].pre

(* add_entries([e1, e2]) against add_entry(e1) then add_entry(e2), from    *)
(* the same file: same table at the end; one open and one create against   *)
(* two of each.                                                            *)
BulkCall(e1, e2) == Call("add_entries", <<e1, e2>>, <<>>)
SingleCall(e) == Call("add_entry", <<e>>, <<>>)

SameAsBulk(k) ==
  LET e1 == log[k].call.entries[1]
      e2 == log[k + 1].call.entries[1]
      bulk == Run(log[k].pre, BulkCall(e1, e2))
  IN  /\ GetEntries(After(k + 1)) = GetEntries(bulk.file)
      /\ bulk.opens = 1 /\ bulk.creates = 1
      /\ log[k].opens + log[k + 1].opens = 2
      /\ log[k].creates + log[k + 1].creates = 2

SameAsSingles(k) ==
  LET e1 == log[k].call.entries[1]
      e2 == log[k].call.entries[2]
      first == Run(log[k].pre, SingleCall(e1))
      second == Run(first.file, SingleCall(e2))
  IN  /\ GetEntries(After(k)) = GetEntries(second.file)
      /\ log[k].opens = 1 /\ log[k].creates = 1
      /\ first.opens + second.opens = 2
      /\ first.creates + second.creates = 2

(* C3 as stated: for every initial content of the file and every pair of   *)
(* entries, add_entries([e1, e2]) leaves the same table as add_entry(e1)   *)
(* followed by add_entry(e2), with one read and one write of the file      *)
(* instead of two of each.                                                 *)
C3_Original ==
  /\ \A k \in 1..(Len(log) - 1) :
       (IsAddEntry(k) /\ IsAddEntry(k + 1) /\ log[k].pre.exists) => SameAsBulk(k)
  /\ \A k \in 1..Len(log) :
       (/\ log[k].call.op = "add_entries"
        /\ Len(log[k].call.entries) = 2
        /\ log[k].pre.exists) => SameAsSingles(k)

(* C3 amended: the same, for every initial content that get_entries        *)
(* parses without error (otherwise each call fails after its read and      *)
(* nothing is written) and every pair of entries whose fields are each     *)
(* written as one column of a line.                                        *)
C3_Amended ==
  /\ \A k \in 1..(Len(log) - 1) :
       (/\ IsAddEntry(k) /\ IsAddEntry(k + 1)
        /\ TableBefore(k).ok
        /\ WireEntry(log[k].call.entries[1])
        /\ WireEntry(log[k + 1].call.entries[1])) => SameAsBulk(k)
  /\ \A k \in 1..Len(log) :
       (/\ log[k].call.op = "add_entries"
        /\ Len(log[k].call.entries) = 2
        /\ TableBefore(k).ok
        /\ WireEntry(log[k].call.entries[1])
        /\ WireEntry(log[k].call.entries[2])) => SameAsSingles(k)

C3_Witness ==
  /\ Len(log) = 2
  /\ IsAddEntry(1) /\ IsAddEntry(2)
  /\ TableBefore(1).ok
  /\ Len(TableBefore(1).entries) >= 1
  /\ Holds(TableBefore(1).entries, log[1].call.entries[1])
  /\ ~Holds(TableBefore(1).entries, log[2].call.entries[1])
  /\ reads = 2 /\ writes = 2
  /\ TableAfter(2).ok
  /\ Len(TableAfter(2).entries) = Len(TableBefore(1).entries) + 1
  /\ SameAsBulk(1)

----------------------------------------------------------------------------
(* Two callers without a lock (SpecConc) *)

EventAt(w, step) == CHOOSE i \in 1..Len(events) : events[i].w = w /\ events[i].step = step
Happened(w, step) == \E i \in 1..Len(events) : events[i].w = w /\ events[i].step = step

(* v finished its write between the read of w and the write of w *)
Overtaken(w, v) ==
  /\ w # v
  /\ wpc[w] = "done" /\ wpc[v] = "done"
  /\ Happened(w, "read") /\ Happened(w, "create") /\ Happened(v, "write")
  /\ EventAt(w, "read") < EventAt(v, "write")
  /\ EventAt(v, "write") < EventAt(w, "create")

(* C10: the read-modify-write is not atomic.  When the write of one caller *)
(* falls between the read and the write of another, both calls succeed and *)
(* the later write puts back what its caller computed from its own read:   *)
(* the file is as if the overtaking call had never run, its update lost.   *)
C10_LostUpdate ==
  \A w \in Writers : \A v \in Writers :
    Overtaken(w, v)
      => /\ wret[w].ok /\ wret[v].ok
         /\ file = Run(events[EventAt(w, "read")].file, wcall[w]).file
         /\ (/\ wcall[v].op = "add_entry"
             /\ ~Holds(wentries[w], wcall[v].entries[1])
             /\ \A i \in 1..Len(wcall[w].entries) :
                   ~EntryEq(wcall[w].entries[i], wcall[v].entries[1]))
              => ~Holds(GetEntries(file).entries, wcall[v].entries[1])

C10_Witness ==
  \E w \in Writers : \E v \in Writers :
    /\ Overtaken(w, v)
    /\ wcall[w].op = "add_entry" /\ wcall[v].op = "add_entry"
    /\ wret[w].ok /\ wret[w].flag
    /\ wret[v].ok /\ wret[v].flag
    /\ GetEntries(file).ok
    /\ Holds(GetEntries(file).entries, wcall[w].entries[1])
    /\ ~Holds(GetEntries(file).entries, wcall[v].entries[1])

====
